---- MODULE Spec2Model ----
(***************************************************************************)
(* Model of the session-reconstruction pipeline of admin_dashboard.py:     *)
(* condense_sessions (raw samples -> one MinuteRecord per user and minute),*)
(* process_productivity (sort, merge scan, idle filter, hourly grouping)   *)
(* and the KPI calculation of the focus score.                             *)
(*                                                                         *)
(* Timestamps are whole seconds of local wall-clock time counted from the  *)
(* local midnight of day 0 (the selected timezone is taken to have a fixed *)
(* offset over the window).  Duration_Mins is a float in the program; it   *)
(* only ever holds sums of 1.0, which are exact, so it is an integer here. *)
(* total_hours and prod_score are rounded to one decimal in the program    *)
(* and are kept here in tenths.                                            *)
(***************************************************************************)
EXTENDS Integers, Sequences, FiniteSets, TLC

\* ------------------------------------------------------------------ bounds
\* longest sequence of raw samples handed to condense_sessions
MaxSamples == 3
\* longest sequence of MinuteRecords (any order) handed to process_productivity
MaxRecs == 3
\* longest run of same-status minutes in the long-run inputs
MaxRun == 11
\* first minute bucket, in minutes after midnight (00:58, so that the
\* buckets straddle an hour boundary)
BaseMinute == 58

\* -------------------------------------------------------- program constants
MAX_IDLE_THRESHOLD_MINS == 10
\* timedelta(minutes=1) and dt.floor('min'), in seconds
SecsPerMinute == 60
\* the literal 60 of "time_gap <= 60"
MergeGapSecs == 60
\* the divisor of total_hours
MinsPerHour == 60

Users == {"A", "B"}
Apps == {"Chrome", "Excel"}
Statuses == {"Active", "Idle"}

\* Position of a string in ascending string order (Python and numpy compare
\* str values lexicographically).
StrRank(s) ==
  CASE s = "A" -> 1
    [] s = "AM" -> 2
    [] s = "Active" -> 3
    [] s = "B" -> 4
    [] s = "Chrome" -> 5
    [] s = "Excel" -> 6
    [] s = "Idle" -> 7
    [] s = "PM" -> 8

Range(seq) == {seq[i] : i \in DOMAIN seq}

RECURSIVE SumSeq(_)
SumSeq(seq) == IF seq = <<>> THEN 0 ELSE Head(seq) + SumSeq(Tail(seq))

\* Start of minute bucket number k
Bucket(k) == (BaseMinute + k) * SecsPerMinute

\* ------------------------------------------------------- condense_sessions
\* variant: the timestamp itself, not floored to the minute
NoFloor(t) == t

\* created_at.dt.floor('min')
minute_bucket(t) == t - (t % SecsPerMinute)

\* The rows of one (user, minute) group, in the order of raw_df
Group(raw_df, user, minute) ==
  SelectSeq(raw_df, LAMBDA s : s.user_name = user /\ minute_bucket(s.created_at) = minute)

Count(seq, v) == Cardinality({i \in DOMAIN seq : seq[i] = v})

\* The values of highest frequency
Modes(seq) == {v \in Range(seq) : \A w \in Range(seq) : Count(seq, w) <= Count(seq, v)}

\* The tied value met first in the order of the rows
FirstSeenMode(seq) ==
  LET i == CHOOSE j \in DOMAIN seq :
             seq[j] \in Modes(seq) /\ \A k \in 1..(j-1) : seq[k] \notin Modes(seq)
  IN seq[i]

\* Series.mode()[0]: pandas returns the modes sorted ascending, so element 0
\* is the smallest of the values of highest frequency.
Mode0(seq) == CHOOSE v \in Modes(seq) : \A w \in Modes(seq) : StrRank(v) <= StrRank(w)

Column(seq, f) == [i \in DOMAIN seq |-> seq[i][f]]

GroupKeys(raw_df) ==
  {<<raw_df[i].user_name, minute_bucket(raw_df[i].created_at)>> : i \in DOMAIN raw_df}

KeyLeq(a, b) ==
  \/ StrRank(a[1]) < StrRank(b[1])
  \/ a[1] = b[1] /\ a[2] <= b[2]

\* groupby(['user_name', 'minute_bucket']) iterates its groups in key order
RECURSIVE SortedKeys(_)
SortedKeys(K) ==
  IF K = {} THEN <<>>
  ELSE LET m == CHOOSE x \in K : \A y \in K : KeyLeq(x, y)
       IN <<m>> \o SortedKeys(K \ {m})

MinuteRecord(user, minute, app, status) ==
  [User |-> user, Start |-> minute, End |-> minute + SecsPerMinute,
   App |-> app, Status |-> status, Duration_Mins |-> 1]

condense_sessions(raw_df) ==
  LET keys == SortedKeys(GroupKeys(raw_df))
  IN [i \in DOMAIN keys |->
        LET group == Group(raw_df, keys[i][1], keys[i][2])
        IN MinuteRecord(keys[i][1], keys[i][2],
                        Mode0(Column(group, "application")),
                        Mode0(Column(group, "status")))]

\* ---------------------------------------------------- process_productivity
UserStartLeq(a, b) ==
  \/ StrRank(a.User) < StrRank(b.User)
  \/ a.User = b.User /\ a.Start <= b.Start

\* One step of a stable insertion sort: r goes after every row that is not
\* greater than it.
RECURSIVE InsertRow(_, _)
InsertRow(r, seq) ==
  IF seq = <<>> THEN <<r>>
  ELSE IF UserStartLeq(seq[Len(seq)], r) THEN Append(seq, r)
  ELSE Append(InsertRow(r, SubSeq(seq, 1, Len(seq) - 1)), seq[Len(seq)])

RECURSIVE SortRows(_)
SortRows(seq) ==
  IF seq = <<>> THEN <<>>
  ELSE InsertRow(seq[Len(seq)], SortRows(SubSeq(seq, 1, Len(seq) - 1)))

\* variant: the rows in the order given
Unsorted(seq) == seq

\* session_df.sort_values(by=['User', 'Start'])
sort_values(seq) == SortRows(seq)

\* (row['Start'] - current_session['End']).total_seconds()
time_gap(row, cur) == row.Start - cur.End

\* variant: a gap of a full 60 seconds is not tolerated
StrictGapCondition(row, cur) ==
  /\ row.User = cur.User
  /\ row.App = cur.App
  /\ row.Status = cur.Status
  /\ time_gap(row, cur) < MergeGapSecs

\* variant: the application is not compared
AppBlindCondition(row, cur) ==
  /\ row.User = cur.User
  /\ row.Status = cur.Status
  /\ time_gap(row, cur) <= MergeGapSecs

\* the condition of the if of the scan loop
MergeCondition(row, cur) ==
  /\ row.User = cur.User
  /\ row.App = cur.App
  /\ row.Status = cur.Status
  /\ time_gap(row, cur) <= MergeGapSecs

\* variant: the End of the accumulator is not moved
KeepEnd(cur, row) ==
  [cur EXCEPT !.Duration_Mins = cur.Duration_Mins + row.Duration_Mins]

\* the then-branch of the scan loop
ExtendSession(cur, row) ==
  [cur EXCEPT !.End = row.End,
              !.Duration_Mins = cur.Duration_Mins + row.Duration_Mins]

\* variant: the accumulator left open by the loop is lost
DropOpenSession(done, cur) == done

\* "if current_session: sessions.append(current_session)" after the loop;
\* cur is the empty sequence for None and a one-element sequence otherwise
FlushSession(done, cur) == IF cur # <<>> THEN done \o cur ELSE done

\* variant: an Idle session of exactly the threshold is discarded too
DiscardedAtThreshold(s) ==
  s.Status = "Idle" /\ s.Duration_Mins >= MAX_IDLE_THRESHOLD_MINS

\* the negated mask of the idle filter
Discarded(s) ==
  s.Status = "Idle" /\ s.Duration_Mins > MAX_IDLE_THRESHOLD_MINS

HourOfDay(t) == (t \div (SecsPerMinute * MinsPerHour)) % 24

\* strftime('%I %p'): the two-digit hour of the 12-hour clock and AM or PM
Hour12(t) ==
  [I |-> IF HourOfDay(t) % 12 = 0 THEN 12 ELSE HourOfDay(t) % 12,
   p |-> IF HourOfDay(t) < 12 THEN "AM" ELSE "PM"]

\* strftime('%m-%d-%Y'): the calendar date, as the number of the day
DateOf(t) == t \div (SecsPerMinute * MinsPerHour * 24)

\* variant: Hour and Date taken from the End of the session
EndHourColumns(s) ==
  [User |-> s.User, Start |-> s.Start, End |-> s.End, App |-> s.App,
   Status |-> s.Status, Duration_Mins |-> s.Duration_Mins,
   Hour |-> Hour12(s.End), Date |-> DateOf(s.End),
   Active_Mins |-> IF s.Status = "Active" THEN s.Duration_Mins ELSE 0,
   Idle_Mins |-> IF s.Status = "Idle" THEN s.Duration_Mins ELSE 0]

\* the four columns added to valid_df
WithHourlyColumns(s) ==
  [User |-> s.User, Start |-> s.Start, End |-> s.End, App |-> s.App,
   Status |-> s.Status, Duration_Mins |-> s.Duration_Mins,
   Hour |-> Hour12(s.Start), Date |-> DateOf(s.Start),
   Active_Mins |-> IF s.Status = "Active" THEN s.Duration_Mins ELSE 0,
   Idle_Mins |-> IF s.Status = "Idle" THEN s.Duration_Mins ELSE 0]

HourlyKey(r) == [User |-> r.User, Date |-> r.Date, Hour |-> r.Hour, App |-> r.App]

\* ascending order of the group keys: User, Date, then the Hour label and
\* App as strings ("01 PM" sorts before "10 AM"); the dates of the window
\* are taken to lie in one month, where '%m-%d-%Y' sorts as the day does
HourlyKeyLeq(a, b) ==
  LET ka == <<StrRank(a.User), a.Date, a.Hour.I, StrRank(a.Hour.p), StrRank(a.App)>>
      kb == <<StrRank(b.User), b.Date, b.Hour.I, StrRank(b.Hour.p), StrRank(b.App)>>
  IN \/ ka = kb
     \/ \E i \in 1..5 : ka[i] < kb[i] /\ \A j \in 1..(i-1) : ka[j] = kb[j]

RECURSIVE SortedHourlyKeys(_)
SortedHourlyKeys(K) ==
  IF K = {} THEN <<>>
  ELSE LET m == CHOOSE x \in K : \A y \in K : HourlyKeyLeq(x, y)
       IN <<m>> \o SortedHourlyKeys(K \ {m})

\* groupby(['User','Date','Hour','App'])[['Active_Mins','Idle_Mins']].sum()
\* .reset_index(), then sort_values(by=['User','Date','Hour'])
GroupHourly(rows) ==
  LET keys == SortedHourlyKeys({HourlyKey(rows[i]) : i \in DOMAIN rows})
  IN [k \in DOMAIN keys |->
        LET grp == SelectSeq(rows, LAMBDA r : HourlyKey(r) = keys[k])
        IN [User |-> keys[k].User, Date |-> keys[k].Date, Hour |-> keys[k].Hour,
            App |-> keys[k].App,
            Active_Mins |-> SumSeq(Column(grp, "Active_Mins")),
            Idle_Mins |-> SumSeq(Column(grp, "Idle_Mins"))]]

\* ---------------------------------------------------------- KPI Calculation
\* round(num / den, 1) in tenths.  An exact decimal tie is rounded to the
\* even neighbour by numpy.float64.__round__ and by the binary value by
\* float.__round__, so either neighbour is a possible result.
RoundTenths(num, den) ==
  LET q == (10 * num) \div den
      r == (10 * num) % den
  IN IF 2 * r < den THEN {q}
     ELSE IF 2 * r > den THEN {q + 1}
     ELSE {q, q + 1}

StatusMins(rows, status) ==
  SumSeq(Column(SelectSeq(rows, LAMBDA r : r.Status = status), "Duration_Mins"))

\* ------------------------------------------------------------------- state
VARIABLES
  pc,               \* position in the script
  raw,              \* df: the raw samples, after the user filter
  session_df,       \* the MinuteRecords handed to process_productivity
  df,               \* process_productivity: the sorted MinuteRecords
  idx,              \* process_productivity: the row df.iterrows() yields next
  sessions,         \* process_productivity: the closed sessions
  current_session,  \* process_productivity: <<>> for None, else <<accumulator>>
  constituents,     \* history: per closed session, the rows of df it absorbed
  current_rows,     \* history: the rows of df the open accumulator absorbed
  merged_df,
  valid_df,         \* valid_sessions
  grouped_hourly,   \* hourly_df
  total_active_mins,
  total_idle_mins,
  total_hours,      \* in tenths of an hour
  prod_score        \* in tenths of a percent

vars == <<pc, raw, session_df, df, idx, sessions, current_session, constituents,
          current_rows, merged_df, valid_df, grouped_hourly, total_active_mins,
          total_idle_mins, total_hours, prod_score>>

\* ------------------------------------------------------------------ inputs
SeqsUpTo(S, n) == UNION {[1..k -> S] : k \in 0..n}

\* instants of the samples: the first and the last second of bucket 0 and
\* the first second of bucket 1
SampleTimes == {Bucket(0), Bucket(0) + SecsPerMinute - 1, Bucket(1)}

\* what a sample reports: an application and a status
SampleKinds == {<<"Chrome", "Active">>, <<"Excel", "Active">>, <<"Excel", "Idle">>}

RawSamples ==
  {[user_name |-> u, created_at |-> t, application |-> k[1], status |-> k[2]] :
     u \in Users, t \in SampleTimes, k \in SampleKinds}

\* buckets of the short inputs: two adjacent minutes, one missing minute,
\* then a third (00:58, 00:59, 01:01 with BaseMinute 58)
ShortBuckets == {0, 1, 3}

MinuteRecords ==
  {MinuteRecord(u, Bucket(k), a, s) : u \in Users, k \in ShortBuckets,
                                      a \in Apps, s \in Statuses}

OnePerUserMinute(seq) ==
  \A i, j \in DOMAIN seq :
    i # j => ~(seq[i].User = seq[j].User /\ seq[i].Start = seq[j].Start)

\* MinuteRecords in any order, at most one per (user, minute)
ShortInputs == {seq \in SeqsUpTo(MinuteRecords, MaxRecs) : OnePerUserMinute(seq)}

Run(first, n, app, status) ==
  [i \in 1..n |-> MinuteRecord("A", Bucket(first + i - 1), app, status)]

\* one user's day: a run of n1 minutes, up to two missing minutes, a run of n2
RunInputs ==
  {Run(0, n1, "Chrome", s1) \o Run(n1 + skip, n2, a2, s2) :
     n1 \in 1..MaxRun, s1 \in Statuses, skip \in 0..2,
     n2 \in 0..MaxRun, a2 \in Apps, s2 \in Statuses}

InitLocals ==
  /\ df = <<>>
  /\ idx = 1
  /\ sessions = <<>>
  /\ current_session = <<>>
  /\ constituents = <<>>
  /\ current_rows = {}
  /\ merged_df = <<>>
  /\ valid_df = <<>>
  /\ grouped_hourly = <<>>
  /\ total_active_mins = 0
  /\ total_idle_mins = 0
  /\ total_hours = 0
  /\ prod_score = 0

\* the script has loaded a non-empty df and is about to condense it
Init ==
  /\ pc = "condense"
  /\ raw \in SeqsUpTo(RawSamples, MaxSamples) \ {<<>>}
  /\ session_df = <<>>
  /\ InitLocals

\* process_productivity is about to be called on MinuteRecords
InitProcess ==
  /\ pc = "process"
  /\ raw = <<>>
  /\ session_df \in ShortInputs \cup RunInputs
  /\ InitLocals

\* ----------------------------------------------------------------- actions
\* session_df = condense_sessions(df)
CondenseSessions ==
  /\ pc = "condense"
  /\ session_df' = condense_sessions(raw)
  /\ pc' = "process"
  /\ UNCHANGED <<raw, df, idx, sessions, current_session, constituents, current_rows,
                 merged_df, valid_df, grouped_hourly, total_active_mins,
                 total_idle_mins, total_hours, prod_score>>

\* process_productivity up to the loop: the empty check and the sort
ProcessStart ==
  /\ pc = "process"
  /\ IF session_df = <<>>
       THEN /\ pc' = "kpi"
            /\ df' = df
       ELSE /\ pc' = "scan"
            /\ df' = sort_values(session_df)
  /\ idx' = 1
  /\ sessions' = <<>>
  /\ current_session' = <<>>
  /\ constituents' = <<>>
  /\ current_rows' = {}
  /\ UNCHANGED <<raw, session_df, merged_df, valid_df, grouped_hourly,
                 total_active_mins, total_idle_mins, total_hours, prod_score>>

\* one iteration of "for _, row in df.iterrows()"
ScanStep ==
  /\ pc = "scan"
  /\ idx <= Len(df)
  /\ LET row == df[idx] IN
       IF current_session = <<>>
         THEN /\ current_session' = <<row>>
              /\ current_rows' = {idx}
              /\ UNCHANGED <<sessions, constituents>>
       ELSE IF MergeCondition(row, current_session[1])
         THEN /\ current_session' = <<ExtendSession(current_session[1], row)>>
              /\ current_rows' = current_rows \cup {idx}
              /\ UNCHANGED <<sessions, constituents>>
         ELSE /\ sessions' = Append(sessions, current_session[1])
              /\ constituents' = Append(constituents, current_rows)
              /\ current_session' = <<row>>
              /\ current_rows' = {idx}
  /\ idx' = idx + 1
  /\ UNCHANGED <<pc, raw, session_df, df, merged_df, valid_df, grouped_hourly,
                 total_active_mins, total_idle_mins, total_hours, prod_score>>

\* the end of the loop: the open accumulator is appended, merged_df is built
Flush ==
  /\ pc = "scan"
  /\ idx > Len(df)
  /\ sessions' = FlushSession(sessions, current_session)
  /\ constituents' = IF current_session # <<>>
                       THEN Append(constituents, current_rows) ELSE constituents
  /\ merged_df' = sessions'
  /\ pc' = "filter"
  /\ UNCHANGED <<raw, session_df, df, idx, current_session, current_rows, valid_df,
                 grouped_hourly, total_active_mins, total_idle_mins, total_hours,
                 prod_score>>

\* valid_df = merged_df[~((Status == 'Idle') & (Duration_Mins > threshold))]
IdleFilter ==
  /\ pc = "filter"
  /\ valid_df' = SelectSeq(merged_df, LAMBDA s : ~Discarded(s))
  /\ pc' = "hourly"
  /\ UNCHANGED <<raw, session_df, df, idx, sessions, current_session, constituents,
                 current_rows, merged_df, grouped_hourly, total_active_mins,
                 total_idle_mins, total_hours, prod_score>>

\* The hourly aggregation and the return.  On an empty valid_df,
\* valid_df.apply(..., axis=1) returns a DataFrame, not a Series, and the
\* assignment of it to the column 'Active_Mins' raises ValueError in the
\* pandas versions that refuse it; the script then stops.
HourlyAggregation ==
  /\ pc = "hourly"
  /\ IF valid_df = <<>>
       THEN /\ pc' \in {"raised", "kpi"}
            /\ UNCHANGED <<valid_df, grouped_hourly>>
       ELSE /\ valid_df' = [i \in DOMAIN valid_df |-> WithHourlyColumns(valid_df[i])]
            /\ grouped_hourly' = GroupHourly(valid_df')
            /\ pc' = "kpi"
  /\ UNCHANGED <<raw, session_df, df, idx, sessions, current_session, constituents,
                 current_rows, merged_df, total_active_mins, total_idle_mins,
                 total_hours, prod_score>>

\* KPI Calculation
KPI ==
  /\ pc = "kpi"
  /\ IF valid_df # <<>>
       THEN /\ total_active_mins' = StatusMins(valid_df, "Active")
            /\ total_idle_mins' = StatusMins(valid_df, "Idle")
            /\ total_hours' \in RoundTenths(total_active_mins' + total_idle_mins',
                                            MinsPerHour)
            /\ IF total_hours' > 0
                 THEN prod_score' \in
                        RoundTenths(total_active_mins' * 100,
                                    total_active_mins' + total_idle_mins')
                 ELSE prod_score' = 0
       ELSE /\ total_hours' = 0
            /\ prod_score' = 0
            /\ total_active_mins' = 0
            /\ UNCHANGED total_idle_mins
  /\ pc' = "done"
  /\ UNCHANGED <<raw, session_df, df, idx, sessions, current_session, constituents,
                 current_rows, merged_df, valid_df, grouped_hourly>>

NextProcess ==
  \/ ProcessStart
  \/ ScanStep
  \/ Flush
  \/ IdleFilter
  \/ HourlyAggregation
  \/ KPI

Next ==
  \/ CondenseSessions
  \/ NextProcess

\* the script, from the loaded samples to the KPIs
Spec == Init /\ [][Next]_vars

\* process_productivity and the KPIs, on MinuteRecords in any order
SpecProcess == InitProcess /\ [][NextProcess]_vars

\* -------------------------------------------------------------- properties
\* merged_df has been built
AfterFlush == pc \in {"filter", "hourly", "kpi", "done", "raised"}

\* the idle filter has been applied
AfterFilter == pc \in {"hourly", "kpi", "done", "raised"}

\* process_productivity has returned
Returned == pc \in {"kpi", "done"}

UserMins(rows, u) ==
  SumSeq(Column(SelectSeq(rows, LAMBDA r : r.User = u), "Duration_Mins"))

\* the six columns of a session
SessionColumns(r) ==
  [User |-> r.User, Start |-> r.Start, End |-> r.End, App |-> r.App,
   Status |-> r.Status, Duration_Mins |-> r.Duration_Mins]

\* rows i and j of df were absorbed by the same merged session
SameSession(i, j) ==
  \E k \in DOMAIN constituents : i \in constituents[k] /\ j \in constituents[k]

SameLabels(a, b) == a.User = b.User /\ a.App = b.App /\ a.Status = b.Status

\* C1: for every user, the Duration_Mins of the merged sessions built by the
\* scan loop (before the idle filter) sum to the Duration_Mins of that user's
\* input MinuteRecords, the last open accumulator included.
C1_Conservation ==
  AfterFlush =>
    \A u \in Users : UserMins(merged_df, u) = UserMins(session_df, u)

\* two users, and the accumulator left open at the end of the scan held a
\* session merged from several records
C1_Witness ==
  /\ pc = "filter"
  /\ Len(merged_df) >= 2
  /\ merged_df[Len(merged_df)].Duration_Mins >= 2
  /\ merged_df[1].User # merged_df[Len(merged_df)].User

\* C2: the sessions process_productivity keeps are exactly the merged
\* sessions, in order, without those that are Idle and longer than
\* MAX_IDLE_THRESHOLD_MINS; every Active session is kept whatever its
\* duration and an Idle session of at most the threshold is kept.
C2_IdleFilter ==
  AfterFilter =>
    /\ [i \in DOMAIN valid_df |-> SessionColumns(valid_df[i])]
         = SelectSeq(merged_df,
                     LAMBDA s : \/ s.Status = "Active"
                                \/ /\ s.Status = "Idle"
                                   /\ s.Duration_Mins <= MAX_IDLE_THRESHOLD_MINS)
    /\ \A i \in DOMAIN merged_df :
         LET s == merged_df[i]
             kept == \E j \in DOMAIN valid_df : SessionColumns(valid_df[j]) = s
         IN /\ s.Status = "Active" => kept
            /\ s.Status = "Idle" /\ s.Duration_Mins <= MAX_IDLE_THRESHOLD_MINS => kept
            /\ s.Status = "Idle" /\ s.Duration_Mins > MAX_IDLE_THRESHOLD_MINS => ~kept

\* an Idle session one minute over the threshold was removed and an Idle
\* session of exactly the threshold was returned
C2_Witness ==
  /\ Returned
  /\ \E i \in DOMAIN merged_df :
       /\ merged_df[i].Status = "Idle"
       /\ merged_df[i].Duration_Mins = MAX_IDLE_THRESHOLD_MINS + 1
       /\ \A j \in DOMAIN valid_df : SessionColumns(valid_df[j]) # merged_df[i]
  /\ \E j \in DOMAIN valid_df :
       /\ valid_df[j].Status = "Idle"
       /\ valid_df[j].Duration_Mins = MAX_IDLE_THRESHOLD_MINS

\* C7: whatever the order of the input MinuteRecords, the merged sessions
\* come out in ascending (user, start) order and, for every user, each
\* session ends no later than the user's next session starts.
C7_OrderedDisjoint ==
  AfterFlush =>
    /\ \A k \in 1..(Len(merged_df) - 1) :
         \/ StrRank(merged_df[k].User) < StrRank(merged_df[k+1].User)
         \/ /\ merged_df[k].User = merged_df[k+1].User
            /\ merged_df[k].Start < merged_df[k+1].Start
    /\ \A k, l \in DOMAIN merged_df :
         k < l /\ merged_df[k].User = merged_df[l].User
           => merged_df[k].End <= merged_df[l].Start

\* the input was not in (user, start) order and one user has two sessions
C7_Witness ==
  /\ pc = "filter"
  /\ session_df # df
  /\ \E k \in 1..(Len(merged_df) - 1) : merged_df[k].User = merged_df[k+1].User

\* C3 as stated: for MinuteRecords of the condenser's shape, records are
\* merged into one session only when the later record's Start equals the
\* earlier record's End, so the records a session absorbs are exactly
\* adjacent minute buckets.
C3_OnlyAdjacentMerged ==
  AfterFlush =>
    \A i \in 1..(Len(df) - 1) :
      SameSession(i, i + 1) => df[i+1].Start = df[i].End

\* C3 as amended: two records of the same user, application and status that
\* follow one another in (user, start) order are merged into one session
\* exactly when the later Start is at most 60 seconds after the earlier End,
\* that is when their buckets are adjacent or one minute bucket is missing
\* between them; with two or more missing buckets they are in different
\* sessions.
C3_AdjacentOrOneMissing ==
  AfterFlush =>
    \A i \in 1..(Len(df) - 1) :
      SameLabels(df[i], df[i+1]) =>
        /\ SameSession(i, i + 1)
             <=> df[i+1].Start - df[i].Start \in {SecsPerMinute, 2 * SecsPerMinute}
        /\ df[i+1].Start - df[i].Start >= 3 * SecsPerMinute => ~SameSession(i, i + 1)

\* two records with one minute bucket missing between them (the later
\* Start is 60 seconds after the earlier End) are in one session
C3_Witness ==
  /\ pc = "filter"
  /\ \E i \in 1..(Len(df) - 1) :
       /\ SameSession(i, i + 1)
       /\ df[i+1].Start - df[i].End = MergeGapSecs
       /\ df[i+1].Start - df[i].Start = 2 * SecsPerMinute

\* C8: in the scan in (user, start) order a record joins the session of the
\* record before it if and only if user, application and status are the
\* same and its Start is at most 60 seconds after the open session's End
\* (which is the End of the record before it); a larger gap breaks the
\* session, and no two consecutive output sessions of one user have the
\* same application and status and a gap of 60 seconds or less.
C8_MergeRule ==
  /\ pc = "scan" /\ current_session # <<>> =>
       /\ current_session[1].End = df[idx - 1].End
       /\ SameLabels(current_session[1], df[idx - 1])
  /\ AfterFlush =>
       /\ \A i \in 1..(Len(df) - 1) :
            SameSession(i, i + 1)
              <=> /\ df[i+1].User = df[i].User
                  /\ df[i+1].App = df[i].App
                  /\ df[i+1].Status = df[i].Status
                  /\ df[i+1].Start - df[i].End <= 60
       /\ \A k \in 1..(Len(merged_df) - 1) :
            ~ /\ merged_df[k+1].User = merged_df[k].User
              /\ merged_df[k+1].App = merged_df[k].App
              /\ merged_df[k+1].Status = merged_df[k].Status
              /\ merged_df[k+1].Start - merged_df[k].End <= 60

\* two records alike in user, application and status but more than 60
\* seconds apart are in different sessions, after a session of several
\* records that joined one another
C8_Witness ==
  /\ pc = "filter"
  /\ \E i \in 2..(Len(df) - 1) :
       /\ SameSession(i - 1, i)
       /\ SameLabels(df[i], df[i+1])
       /\ df[i+1].Start - df[i].End > 60
       /\ ~SameSession(i, i + 1)

MinOf(S) == CHOOSE x \in S : \A y \in S : x <= y
MaxOf(S) == CHOOSE x \in S : \A y \in S : y <= x

\* C10: every merged session starts at the Start of the first record it
\* absorbed, ends at the End of the last, and has the number of its records
\* as Duration_Mins; so Duration_Mins never exceeds End - Start in minutes
\* and equals it exactly when all its records are exactly adjacent.
C10_BoundsAndDuration ==
  AfterFlush =>
    /\ Len(constituents) = Len(merged_df)
    /\ \A k \in DOMAIN merged_df :
         LET rows == constituents[k]
             first == MinOf(rows)
             last == MaxOf(rows)
         IN /\ rows = first..last
            /\ merged_df[k].Start = df[first].Start
            /\ merged_df[k].End = df[last].End
            /\ merged_df[k].Duration_Mins = Cardinality(rows)
            /\ merged_df[k].Duration_Mins * SecsPerMinute
                 <= merged_df[k].End - merged_df[k].Start
            /\ merged_df[k].Duration_Mins * SecsPerMinute
                 = merged_df[k].End - merged_df[k].Start
               <=> \A i \in rows \ {last} : df[i+1].Start = df[i].End

\* three adjacent records form one session of duration 3 that spans
\* exactly three minutes
C10_Witness ==
  /\ pc = "filter"
  /\ \E k \in DOMAIN merged_df :
       /\ Cardinality(constituents[k]) = 3
       /\ merged_df[k].Duration_Mins = 3
       /\ merged_df[k].End - merged_df[k].Start = 3 * SecsPerMinute

\* C5: every returned session adds its whole Duration_Mins to exactly one
\* hourly row, the one keyed by its user, the date of its Start, the hour
\* label of its Start and its application, as Active_Mins or Idle_Mins by
\* its status; there is one row per key present and each row holds the sums
\* over the sessions of its key.
C5_HourlyAttribution ==
  Returned =>
    LET keyOfSession(s) == <<s.User, DateOf(s.Start), Hour12(s.Start), s.App>>
        keyOfRow(r) == <<r.User, r.Date, r.Hour, r.App>>
        mins(key, status) ==
          SumSeq(Column(SelectSeq(valid_df,
                                  LAMBDA s : keyOfSession(s) = key /\ s.Status = status),
                        "Duration_Mins"))
    IN /\ \A i, j \in DOMAIN grouped_hourly :
            i # j => keyOfRow(grouped_hourly[i]) # keyOfRow(grouped_hourly[j])
       /\ {keyOfRow(grouped_hourly[i]) : i \in DOMAIN grouped_hourly}
            = {keyOfSession(valid_df[i]) : i \in DOMAIN valid_df}
       /\ \A i \in DOMAIN grouped_hourly :
            /\ grouped_hourly[i].Active_Mins = mins(keyOfRow(grouped_hourly[i]), "Active")
            /\ grouped_hourly[i].Idle_Mins = mins(keyOfRow(grouped_hourly[i]), "Idle")
       /\ SumSeq(Column(grouped_hourly, "Active_Mins"))
            + SumSeq(Column(grouped_hourly, "Idle_Mins"))
            = SumSeq(Column(valid_df, "Duration_Mins"))

\* a session that starts in one hour and ends in the next is counted whole
\* in the row of its start hour, a row that also sums another session
C5_Witness ==
  /\ pc = "done"
  /\ \E i \in DOMAIN valid_df, j \in DOMAIN grouped_hourly :
       /\ HourOfDay(valid_df[i].Start) # HourOfDay(valid_df[i].End - 1)
       /\ valid_df[i].Status = "Idle"
       /\ grouped_hourly[j].User = valid_df[i].User
       /\ grouped_hourly[j].App = valid_df[i].App
       /\ grouped_hourly[j].Hour = Hour12(valid_df[i].Start)
       /\ grouped_hourly[j].Idle_Mins = valid_df[i].Duration_Mins
       /\ grouped_hourly[j].Active_Mins > 0

\* condense_sessions has returned
Condensed == pc # "condense"

\* the samples of raw that fall in the bucket of MinuteRecord m, in order
SamplesOf(m) ==
  SelectSeq(raw, LAMBDA x : /\ x.user_name = m.User
                            /\ m.Start <= x.created_at
                            /\ x.created_at < m.Start + 60)

\* C6: condense_sessions emits exactly one MinuteRecord for every (user,
\* minute bucket) pair that has a sample and none for any other pair; no two
\* records share (User, Start); each has Start on the minute at or before
\* its samples, End one minute later and Duration_Mins 1.
C6_OnePerUserMinute ==
  Condensed =>
    /\ \A i \in DOMAIN raw :
         \E j \in DOMAIN session_df :
           /\ session_df[j].User = raw[i].user_name
           /\ session_df[j].Start <= raw[i].created_at
           /\ raw[i].created_at < session_df[j].Start + 60
    /\ \A j \in DOMAIN session_df :
         /\ SamplesOf(session_df[j]) # <<>>
         /\ session_df[j].Start % 60 = 0
         /\ session_df[j].End = session_df[j].Start + 60
         /\ session_df[j].Duration_Mins = 1
    /\ \A j, k \in DOMAIN session_df :
         j # k => ~ /\ session_df[j].User = session_df[k].User
                    /\ session_df[j].Start = session_df[k].Start

\* samples out of time order, two of them at different seconds of one
\* minute of one user, were condensed to two records
C6_Witness ==
  /\ pc = "process"
  /\ Len(session_df) = 2
  /\ \E i, j \in DOMAIN raw :
       /\ i < j
       /\ raw[i].created_at > raw[j].created_at
  /\ \E i, j \in DOMAIN raw :
       /\ raw[i].user_name = raw[j].user_name
       /\ raw[i].created_at # raw[j].created_at
       /\ raw[i].created_at \div 60 = raw[j].created_at \div 60

\* C9 as stated: on a tie for the highest frequency in a bucket, the
\* MinuteRecord carries the tied value met first in the bucket's samples.
C9_FirstSeenOnTie ==
  Condensed =>
    \A j \in DOMAIN session_df :
      /\ session_df[j].App
           = FirstSeenMode(Column(SamplesOf(session_df[j]), "application"))
      /\ session_df[j].Status
           = FirstSeenMode(Column(SamplesOf(session_df[j]), "status"))

\* the values of column f that no other value of the bucket outnumbers
TopValues(m, f) ==
  LET col == Column(SamplesOf(m), f)
      n(v) == Cardinality({i \in DOMAIN col : col[i] = v})
  IN {v \in Range(col) : \A w \in Range(col) : n(w) <= n(v)}

\* C9 as amended: the MinuteRecord carries a value of highest frequency, and
\* on a tie the tied value that is smallest in ascending string order,
\* whatever the order of the samples.
C9_SmallestOnTie ==
  Condensed =>
    \A j \in DOMAIN session_df :
      /\ session_df[j].App \in TopValues(session_df[j], "application")
      /\ \A w \in TopValues(session_df[j], "application") :
           StrRank(session_df[j].App) <= StrRank(w)
      /\ session_df[j].Status \in TopValues(session_df[j], "status")
      /\ \A w \in TopValues(session_df[j], "status") :
           StrRank(session_df[j].Status) <= StrRank(w)

\* a bucket whose applications tie and whose statuses tie, the first sample
\* carrying neither the application nor the status that is emitted
C9_Witness ==
  /\ pc = "process"
  /\ \E j \in DOMAIN session_df :
       LET smp == SamplesOf(session_df[j])
       IN /\ Cardinality(TopValues(session_df[j], "application")) = 2
          /\ Cardinality(TopValues(session_df[j], "status")) = 2
          /\ smp[1].application # session_df[j].App
          /\ smp[1].status # session_df[j].Status

\* C4: the focus score is active / (active + idle) * 100 rounded to one
\* decimal whenever active + idle > 0, and 0 when active + idle = 0 or there
\* are no sessions.
C4_FocusScore ==
  pc = "done" =>
    LET active == StatusMins(valid_df, "Active")
        idle == StatusMins(valid_df, "Idle")
    IN IF active + idle > 0
         THEN prod_score \in RoundTenths(active * 100, active + idle)
         ELSE prod_score = 0

====
